---- MODULE Spec2Model ----
(***************************************************************************)
(* Model of client_bank_exchange_1c.py: the 1CClientBankExchange codec.    *)
(*                                                                         *)
(* Representation.                                                         *)
(*  - A short Python string (a key's payload, a field value) is a sequence *)
(*    of one-character strings: u'1.5' is <<"1", ".", "5">>.               *)
(*  - A multi-line text is a sequence of lines; a line is a record         *)
(*    [key, eq, val]: the text before the first '=', whether there is an   *)
(*    '=', and the text after it.  The empty Python string is <<>>.        *)
(*    The marker words (the Sektsiya... and Konets... keys) occur only as  *)
(*    the key of a line, never inside a payload.                           *)
(*  - The Cyrillic keys of the format are written in Latin transliteration, *)
(*    since a TLA+ string holds ASCII only.                                *)
(*  - A Python value is a record with a tag field t; an exception that     *)
(*    leaves a call is the value [t |-> "raise", exc |-> <class name>].    *)
(***************************************************************************)
EXTENDS Integers, Sequences, FiniteSets, TLC

VARIABLES
    dictOrder,  \* iteration order of the dicts Schema.to_dict() builds
    pc,         \* where the calling program stands
    arg,        \* the input the calling program started from
    text,       \* the text at hand (read from a file, or the last to_text result)
    stmt,       \* the Statement or Section at hand, None when there is none
    first,      \* the Statement that the last to_text encoded
    ret,        \* the outcome of the last call: its value, or what it raised
    hist        \* the calls made so far, in order

vars == <<dictOrder, pc, arg, text, stmt, first, ret, hist>>

-----------------------------------------------------------------------------
(* Python values *)

None == [t |-> "None"]

Str(s) == [t |-> "str", v |-> s]

PyList(s) == [t |-> "list", v |-> s]

\* a set object, with the order its iteration yields
PySet(s) == [t |-> "set", v |-> s]

\* an exception leaving a call; key: the field key its message names, if any
RaiseKey(e, k) == [t |-> "raise", exc |-> e, key |-> k]

Raise(e) == RaiseKey(e, "")

IsRaise(x) == x.t = "raise"

PyDate(y, m, d) == [t |-> "date", y |-> y, m |-> m, d |-> d]

PyTime(h, mi, s) == [t |-> "time", h |-> h, mi |-> mi, s |-> s]

PyDateTime(y, m, d, h, mi, s) ==
    [t |-> "datetime", y |-> y, m |-> m, d |-> d, h |-> h, mi |-> mi, s |-> s]

\* decimal.Decimal: sign, coefficient, number of fractional digits
PyDecimal(neg, coef, exp) == [t |-> "Decimal", neg |-> neg, coef |-> coef, exp |-> exp]

\* bool(obj). A datetime.time of midnight is false in Python 2.
Truthy(obj) ==
    CASE obj.t = "None" -> FALSE
      [] obj.t \in {"str", "list", "set"} -> obj.v # <<>>
      [] obj.t = "time" -> ~(obj.h = 0 /\ obj.mi = 0 /\ obj.s = 0)
      [] obj.t = "Decimal" -> obj.coef # 0
      [] OTHER -> TRUE

-----------------------------------------------------------------------------
(* Strings *)

Digits == {"0", "1", "2", "3", "4", "5", "6", "7", "8", "9"}

DigitVal(c) ==
    CASE c = "0" -> 0 [] c = "1" -> 1 [] c = "2" -> 2 [] c = "3" -> 3
      [] c = "4" -> 4 [] c = "5" -> 5 [] c = "6" -> 6 [] c = "7" -> 7
      [] c = "8" -> 8 [] c = "9" -> 9

DigitChar(n) ==
    CASE n = 0 -> "0" [] n = 1 -> "1" [] n = 2 -> "2" [] n = 3 -> "3"
      [] n = 4 -> "4" [] n = 5 -> "5" [] n = 6 -> "6" [] n = 7 -> "7"
      [] n = 8 -> "8" [] n = 9 -> "9"

AllDigits(s) == \A i \in 1..Len(s) : s[i] \in Digits

RECURSIVE ToNat(_)
\* int(s) of a digit string
ToNat(s) ==
    IF s = <<>> THEN 0
    ELSE 10 * ToNat(SubSeq(s, 1, Len(s) - 1)) + DigitVal(s[Len(s)])

RECURSIVE NatStr(_)
\* str(n) for n >= 0
NatStr(n) ==
    IF n < 10 THEN <<DigitChar(n)>>
    ELSE NatStr(n \div 10) \o <<DigitChar(n % 10)>>

RECURSIVE Zeros(_)
Zeros(n) == IF n <= 0 THEN <<>> ELSE <<"0">> \o Zeros(n - 1)

\* '%02d' / '%04d'
Pad(n, width) == Zeros(width - Len(NatStr(n))) \o NatStr(n)

\* s.count(c)
Count(s, c) == Cardinality({i \in 1..Len(s) : s[i] = c})

RECURSIVE Replace(_, _, _, _)
\* s.replace(old, new, count) for a one-character old; count < 0 replaces all
Replace(s, old, new, count) ==
    IF s = <<>> \/ count = 0 THEN s
    ELSE IF Head(s) = old THEN new \o Replace(Tail(s), old, new, count - 1)
    ELSE <<Head(s)>> \o Replace(Tail(s), old, new, count)

\* s.replace(old, new)
ReplaceAll(s, old, new) == Replace(s, old, new, -1)

RECURSIVE LStrip(_)
LStrip(s) == IF s # <<>> /\ Head(s) = " " THEN LStrip(Tail(s)) ELSE s

RECURSIVE RStrip(_)
RStrip(s) ==
    IF s # <<>> /\ s[Len(s)] = " " THEN RStrip(SubSeq(s, 1, Len(s) - 1)) ELSE s

\* s.strip()
Strip(s) == RStrip(LStrip(s))

RECURSIVE Split(_, _)
\* s.split(sep) for a one-character sep
Split(s, sep) ==
    IF \A i \in 1..Len(s) : s[i] # sep THEN <<s>>
    ELSE LET p == CHOOSE i \in 1..Len(s) : s[i] = sep /\ \A j \in 1..(i - 1) : s[j] # sep
         IN <<SubSeq(s, 1, p - 1)>> \o Split(SubSeq(s, p + 1, Len(s)), sep)

RECURSIVE Concat(_)
Concat(ss) == IF ss = <<>> THEN <<>> ELSE Head(ss) \o Concat(Tail(ss))

-----------------------------------------------------------------------------
(* Decimal *)

\* Decimal(s) for s over the characters str_to_amount leaves: digits . - ,
Decimal(s) ==
    LET neg  == s # <<>> /\ Head(s) = "-"
        body == IF neg THEN Tail(s) ELSE s
        parts == Split(body, ".")
        ip == parts[1]
        fp == IF Len(parts) > 1 THEN parts[2] ELSE <<>>
    IN  IF Len(parts) > 2 \/ ip \o fp = <<>> \/ ~AllDigits(ip \o fp)
        THEN Raise("InvalidOperation")
        ELSE PyDecimal(neg, ToNat(ip \o fp), Len(fp))

Pow10(n) == ToNat(<<"1">> \o Zeros(n))

\* Decimal.__eq__: numeric equality
DecimalEq(a, b) ==
    /\ a.t = "Decimal" /\ b.t = "Decimal"
    /\ a.coef * Pow10(b.exp) = b.coef * Pow10(a.exp)
    /\ (a.neg = b.neg \/ a.coef = 0)

\* unicode(d) for a decimal.Decimal, Decimal.__str__
DecimalStr(d) ==
    LET int  == NatStr(d.coef)
        left == Len(int) - d.exp
        dot  == IF left > -6 THEN left ELSE 1
        ipart == IF dot <= 0 THEN <<"0">>
                 ELSE IF dot >= Len(int) THEN int \o Zeros(dot - Len(int))
                 ELSE SubSeq(int, 1, dot)
        fpart == IF dot <= 0 THEN <<".">> \o Zeros(-dot) \o int
                 ELSE IF dot >= Len(int) THEN <<>>
                 ELSE <<".">> \o SubSeq(int, dot + 1, Len(int))
        e     == left - dot
        epart == IF e = 0 THEN <<>>
                 ELSE <<"E", IF e < 0 THEN "-" ELSE "+">> \o NatStr(IF e < 0 THEN -e ELSE e)
    IN  (IF d.neg THEN <<"-">> ELSE <<>>) \o ipart \o fpart \o epart

-----------------------------------------------------------------------------
(* Cast *)

DATE_FORMAT_SEP == "."

TIME_FORMAT_SEP == ":"

IsLeap(y) == y % 4 = 0 /\ (y % 100 # 0 \/ y % 400 = 0)

DaysIn(y, m) ==
    IF m = 2 THEN (IF IsLeap(y) THEN 29 ELSE 28)
    ELSE IF m \in {4, 6, 9, 11} THEN 30 ELSE 31

\* a part of the text matches a numeric directive (%d %m %H %M %S): one or two
\* digits with a value in lo..hi
Directive(p, lo, hi) ==
    /\ Len(p) \in {1, 2}
    /\ AllDigits(p)
    /\ ToNat(p) >= lo
    /\ ToNat(p) <= hi

\* datetime.strptime(s, u'%d.%m.%Y').date()
StrpDate(s) ==
    LET parts == Split(s, DATE_FORMAT_SEP)
        dp == IF Len(parts[1]) = 2 /\ parts[1][1] = " " /\ parts[1][2] # "0"
              THEN Tail(parts[1]) ELSE parts[1]
    IN  IF /\ Len(parts) = 3
           /\ Directive(dp, 1, 31)
           /\ Directive(parts[2], 1, 12)
           /\ Len(parts[3]) = 4 /\ AllDigits(parts[3])
           /\ ToNat(parts[3]) >= 1
           /\ ToNat(dp) <= DaysIn(ToNat(parts[3]), ToNat(parts[2]))
        THEN PyDate(ToNat(parts[3]), ToNat(parts[2]), ToNat(dp))
        ELSE Raise("ValueError")

\* datetime.strptime(s, u'%H:%M:%S').time()
StrpTime(s) ==
    LET parts == Split(s, TIME_FORMAT_SEP)
    IN  IF /\ Len(parts) = 3
           /\ Directive(parts[1], 0, 23)
           /\ Directive(parts[2], 0, 59)
           /\ Directive(parts[3], 0, 59)
        THEN PyTime(ToNat(parts[1]), ToNat(parts[2]), ToNat(parts[3]))
        ELSE Raise("ValueError")

\* repr of a list of strings
Repr(items) ==
    <<"[">> \o Concat([i \in 1..Len(items) |->
                 (IF i > 1 THEN <<",", " ">> ELSE <<>>) \o <<"u", "'">> \o
                 (IF items[i].t = "str" THEN items[i].v ELSE <<"?">>) \o <<"'">>])
    \o <<"]">>

\* unicode(obj)
Unicode(obj) ==
    CASE obj.t = "str" -> obj.v
      [] obj.t = "None" -> <<"N", "o", "n", "e">>
      [] obj.t = "Decimal" -> DecimalStr(obj)
      [] obj.t = "list" -> Repr(obj.v)
      [] obj.t = "set" -> <<"s", "e", "t", "(">> \o Repr(obj.v) \o <<")">>
      [] obj.t = "date" ->
            Pad(obj.y, 4) \o <<"-">> \o Pad(obj.m, 2) \o <<"-">> \o Pad(obj.d, 2)
      [] obj.t = "time" ->
            Pad(obj.h, 2) \o <<":">> \o Pad(obj.mi, 2) \o <<":">> \o Pad(obj.s, 2)

str_to_text(obj) ==
    IF obj # <<>> /\ Strip(obj) # <<>> THEN Str(Strip(obj)) ELSE None

str_to_date(obj) ==
    IF obj # <<>> THEN StrpDate(obj) ELSE None

str_to_time(obj) ==
    IF obj # <<>> THEN StrpTime(obj) ELSE None

\* the re.sub of str_to_amount: drop every character but digits , . -
AmountSub(s) == SelectSeq(s, LAMBDA c : c \in Digits \cup {",", ".", "-"})

str_to_amount(obj) ==
    Decimal(Replace(
        ReplaceAll(ReplaceAll(ReplaceAll(AmountSub(obj), "'", <<>>), " ", <<>>), ",", <<".">>),
        ".", <<>>, Count(obj, ".") - 1))

text_to_str(obj) ==
    IF Truthy(obj) THEN Str(Strip(Unicode(obj))) ELSE Str(<<>>)

\* strftime refuses a year before 1900 in Python 2
date_to_str(obj) ==
    IF Truthy(obj)
    THEN IF obj.y < 1900 THEN Raise("ValueError")
         ELSE Str(Pad(obj.d, 2) \o <<".">> \o Pad(obj.m, 2) \o <<".">> \o Pad(obj.y, 4))
    ELSE Str(<<>>)

time_to_str(obj) ==
    IF Truthy(obj)
    THEN Str(Pad(obj.h, 2) \o <<":">> \o Pad(obj.mi, 2) \o <<":">> \o Pad(obj.s, 2))
    ELSE Str(<<>>)

amount_to_str(obj) == Str(ReplaceAll(Unicode(obj), ",", <<".">>))

\* Type.<type>.value.cast_from_text
cast_from_text(type, raw) ==
    CASE type = "DATE" -> str_to_date(raw)
      [] type = "TIME" -> str_to_time(raw)
      [] type = "AMOUNT" -> str_to_amount(raw)
      [] OTHER -> str_to_text(raw)

\* Type.<type>.value.cast_to_text
cast_to_text(type, obj) ==
    CASE type = "DATE" -> date_to_str(obj)
      [] type = "TIME" -> time_to_str(obj)
      [] type = "AMOUNT" -> amount_to_str(obj)
      [] OTHER -> text_to_str(obj)

-----------------------------------------------------------------------------
(* Required, Field, the schemas *)

NONE == {}

TO_BANK == {"TO_BANK"}

FROM_BANK == {"FROM_BANK"}

BOTH == TO_BANK \cup FROM_BANK

\* attr: the name the schema class binds the Field to
Field(attr, key, required, type) ==
    [attr |-> attr, key |-> key, required |-> required, type |-> type]

HeaderSchema ==
    << Field("format_name", "1CClientBankExchange", BOTH, "FLAG"),
       Field("format_version", "VersiyaFormata", BOTH, "TEXT"),
       Field("encoding", "Kodirovka", BOTH, "TEXT"),
       Field("sender", "Otpravitel", TO_BANK, "TEXT"),
       Field("receiver", "Poluchatel", FROM_BANK, "TEXT"),
       Field("creation_date", "DataSozdaniya", NONE, "DATE"),
       Field("creation_time", "VremyaSozdaniya", NONE, "TIME"),
       Field("filter_date_since", "DataNachala", BOTH, "DATE"),
       Field("filter_date_till", "DataKontsa", BOTH, "DATE"),
       Field("filter_account_numbers", "RaschSchet", BOTH, "ARRAY"),
       Field("filter_document_types", "Dokument", NONE, "ARRAY") >>

BalanceSchema ==
    << Field("tag_begin", "SektsiyaRaschSchet", NONE, "FLAG"),
       Field("date_since", "DataNachala", FROM_BANK, "DATE"),
       Field("date_till", "DataKontsa", NONE, "DATE"),
       Field("account_number", "RaschSchet", FROM_BANK, "TEXT"),
       Field("initial_balance", "NachalnyyOstatok", FROM_BANK, "AMOUNT"),
       Field("total_income", "VsegoPostupilo", NONE, "AMOUNT"),
       Field("total_expense", "VsegoSpisano", NONE, "AMOUNT"),
       Field("final_balance", "KonechnyyOstatok", NONE, "AMOUNT"),
       Field("tag_end", "KonetsRaschSchet", NONE, "FLAG") >>

ReceiptSchema ==
    << Field("date", "KvitantsiyaData", NONE, "DATE"),
       Field("time", "KvitantsiyaVremya", NONE, "TIME"),
       Field("content", "KvitantsiyaSoderzhanie", NONE, "TEXT") >>

PayerSchema ==
    << Field("account", "PlatelshchikSchet", BOTH, "TEXT"),
       Field("date_charged", "DataSpisano", FROM_BANK, "DATE"),
       Field("name", "Platelshchik", TO_BANK, "TEXT"),
       Field("inn", "PlatelshchikINN", BOTH, "TEXT"),
       Field("l1_name", "Platelshchik1", TO_BANK, "TEXT"),
       Field("l2_account_number", "Platelshchik2", NONE, "TEXT"),
       Field("l3_bank", "Platelshchik3", NONE, "TEXT"),
       Field("l4_city", "Platelshchik4", NONE, "TEXT"),
       Field("account_number", "PlatelshchikRaschSchet", TO_BANK, "TEXT"),
       Field("bank_1_name", "PlatelshchikBank1", TO_BANK, "TEXT"),
       Field("bank_2_city", "PlatelshchikBank2", TO_BANK, "TEXT"),
       Field("bank_bic", "PlatelshchikBIK", TO_BANK, "TEXT"),
       Field("bank_corr_account", "PlatelshchikKorschet", TO_BANK, "TEXT") >>

ReceiverSchema ==
    << Field("account", "PoluchatelSchet", BOTH, "TEXT"),
       Field("date_received", "DataPostupilo", FROM_BANK, "TEXT"),
       Field("name", "Poluchatel", TO_BANK, "TEXT"),
       Field("inn", "PoluchatelINN", BOTH, "TEXT"),
       Field("l1_name", "Poluchatel1", TO_BANK, "TEXT"),
       Field("l2_account_number", "Poluchatel2", NONE, "TEXT"),
       Field("l3_bank", "Poluchatel3", NONE, "TEXT"),
       Field("l4_city", "Poluchatel4", NONE, "TEXT"),
       Field("account_number", "PoluchatelRaschSchet", TO_BANK, "TEXT"),
       Field("bank_1_name", "PoluchatelBank1", TO_BANK, "TEXT"),
       Field("bank_2_city", "PoluchatelBank2", TO_BANK, "TEXT"),
       Field("bank_bic", "PoluchatelBIK", TO_BANK, "TEXT"),
       Field("bank_corr_account", "PoluchatelKorschet", TO_BANK, "TEXT") >>

PaymentSchema ==
    << Field("payment_type", "VidPlatezha", NONE, "TEXT"),
       Field("operation_type", "VidOplaty", TO_BANK, "TEXT"),
       Field("code", "Kod", NONE, "TEXT"),
       Field("purpose", "NaznacheniePlatezha", NONE, "TEXT"),
       Field("purpose_l1", "NaznacheniePlatezha1", NONE, "TEXT"),
       Field("purpose_l2", "NaznacheniePlatezha2", NONE, "TEXT"),
       Field("purpose_l3", "NaznacheniePlatezha3", NONE, "TEXT"),
       Field("purpose_l4", "NaznacheniePlatezha4", NONE, "TEXT"),
       Field("purpose_l5", "NaznacheniePlatezha5", NONE, "TEXT"),
       Field("purpose_l6", "NaznacheniePlatezha6", NONE, "TEXT") >>

TaxSchema ==
    << Field("originator_status", "StatusSostavitelya", BOTH, "TEXT"),
       Field("payer_kpp", "PlatelshchikKPP", BOTH, "TEXT"),
       Field("receiver_kpp", "PoluchatelKPP", BOTH, "TEXT"),
       Field("kbk", "PokazatelKBK", BOTH, "TEXT"),
       Field("okato", "OKATO", BOTH, "TEXT"),
       Field("basis", "PokazatelOsnovaniya", BOTH, "TEXT"),
       Field("period", "PokazatelPerioda", BOTH, "TEXT"),
       Field("number", "PokazatelNomera", BOTH, "TEXT"),
       Field("date", "PokazatelDaty", BOTH, "TEXT"),
       Field("type", "PokazatelTipa", NONE, "TEXT") >>

SpecialSchema ==
    << Field("priority", "Ocherednost", NONE, "TEXT"),
       Field("term_of_acceptance", "SrokAktsepta", NONE, "TEXT"),
       Field("letter_of_credit_type", "VidAkkreditiva", NONE, "TEXT"),
       Field("maturity", "SrokPlatezha", NONE, "TEXT"),
       Field("payment_condition_1", "UslovieOplaty1", NONE, "TEXT"),
       Field("payment_condition_2", "UslovieOplaty2", NONE, "TEXT"),
       Field("payment_condition_3", "UslovieOplaty3", NONE, "TEXT"),
       Field("by_submission", "PlatezhPoPredst", NONE, "TEXT"),
       Field("extra_conditions", "DopolnUsloviya", NONE, "TEXT"),
       Field("supplier_account_number", "NomerSchetaPostavshchika", NONE, "TEXT"),
       Field("docs_sent_date", "DataOtsylkiDok", NONE, "TEXT") >>

DocumentSchema ==
    << Field("document_type", "SektsiyaDokument", NONE, "TEXT"),
       Field("number", "Nomer", BOTH, "TEXT"),
       Field("date", "Data", BOTH, "DATE"),
       Field("amount", "Summa", BOTH, "AMOUNT") >>

\* the attribute order of each schema dict under the string hash of CPython 2.7
\* (64-bit, hash randomisation off)
HashedOrder(cls) ==
    CASE cls = "Header" ->
           << "filter_date_since", "sender", "format_version", "encoding", "filter_date_till", "creation_time", "format_name", "creation_date", "filter_account_numbers", "receiver", "filter_document_types" >>
      [] cls = "Balance" ->
           << "date_since", "initial_balance", "tag_end", "date_till", "total_income", "final_balance", "account_number", "total_expense", "tag_begin" >>
      [] cls = "Receipt" ->
           << "date", "content", "time" >>
      [] cls = "Payer" ->
           << "account", "l2_account_number", "name", "l1_name", "l4_city", "bank_2_city", "l3_bank", "bank_corr_account", "account_number", "bank_bic", "bank_1_name", "inn", "date_charged" >>
      [] cls = "Receiver" ->
           << "account", "l2_account_number", "name", "l1_name", "l4_city", "bank_2_city", "l3_bank", "bank_corr_account", "account_number", "bank_1_name", "date_received", "inn", "bank_bic" >>
      [] cls = "Payment" ->
           << "code", "payment_type", "operation_type", "purpose_l6", "purpose_l5", "purpose_l4", "purpose_l3", "purpose_l2", "purpose_l1", "purpose" >>
      [] cls = "Tax" ->
           << "kbk", "originator_status", "basis", "okato", "number", "date", "period", "payer_kpp", "receiver_kpp", "type" >>
      [] cls = "Special" ->
           << "payment_condition_2", "payment_condition_3", "payment_condition_1", "letter_of_credit_type", "priority", "maturity", "supplier_account_number", "term_of_acceptance", "docs_sent_date", "by_submission", "extra_conditions" >>
      [] cls = "Document" ->
           << "date", "amount", "document_type", "number" >>

SchemaOf(cls) ==
    CASE cls = "Header" -> HeaderSchema
      [] cls = "Balance" -> BalanceSchema
      [] cls = "Receipt" -> ReceiptSchema
      [] cls = "Payer" -> PayerSchema
      [] cls = "Receiver" -> ReceiverSchema
      [] cls = "Payment" -> PaymentSchema
      [] cls = "Tax" -> TaxSchema
      [] cls = "Special" -> SpecialSchema
      [] cls = "Document" -> DocumentSchema

Attrs(cls) == {SchemaOf(cls)[i].attr : i \in 1..Len(SchemaOf(cls))}

FieldOf(cls, attr) ==
    LET sch == SchemaOf(cls)
    IN  sch[CHOOSE i \in 1..Len(sch) : sch[i].attr = attr]

\* The orders in which a dict's items come out: the order of insertion (a build
\* whose dicts keep it) or the hash order of the keys.
DictOrders == {"declared", "hashed"}

\* Schema.to_dict().items(): the fields of the schema in the dict's order
to_dict(cls) ==
    IF dictOrder = "declared" THEN SchemaOf(cls)
    ELSE [i \in 1..Len(SchemaOf(cls)) |-> FieldOf(cls, HashedOrder(cls)[i])]

-----------------------------------------------------------------------------
(* Texts *)

Line(key, eq, val) == [key |-> key, eq |-> eq, val |-> val]

\* the line 'key=val'
Kv(key, val) == Line(key, TRUE, val)

\* the line 'key'
Bare(key) == Line(key, FALSE, <<>>)

Blank == Bare("")

\* a unicode object holding a (multi-line) text
Text(lines) == [t |-> "text", lines |-> lines]

MinOf(S) == CHOOSE x \in S : \A y \in S : x <= y

\* u'\n'.join(parts): an empty part leaves an empty line
JoinNL(parts) ==
    IF Len(parts) = 0 THEN <<>>
    ELSE IF Len(parts) = 1 THEN parts[1]
    ELSE Concat([i \in 1..Len(parts) |-> IF parts[i] = <<>> THEN <<Blank>> ELSE parts[i]])

\* u'\n\n'.join(parts) of non-empty parts
JoinBlocks(parts) ==
    Concat([i \in 1..Len(parts) |-> (IF i > 1 THEN <<Blank>> ELSE <<>>) \o parts[i]])

-----------------------------------------------------------------------------
(* Local variables *)

\* a local variable: Body is the code that follows the assignment of value
\* (value is computed once, however often Body reads it)
Bind(value, Body(_)) == Body(value)

-----------------------------------------------------------------------------
(* Field.get_value_from_text *)

\* re.findall(ur'^' + key + u'=(.*?)$', source_text, re.MULTILINE)
FindKey(key, lines) ==
    LET hits == SelectSeq(lines, LAMBDA l : l.key = key /\ l.eq)
    IN  [i \in 1..Len(hits) |-> hits[i].val]

\* the casts of the found payloads: a list for a repeated ARRAY field
CastFound(field, found) ==
    IF found = <<>> THEN None
    ELSE IF field.type = "ARRAY" /\ Len(found) > 1
    THEN PyList([i \in 1..Len(found) |-> cast_from_text(field.type, found[i])])
    ELSE cast_from_text(field.type, found[1])

\* get_value_from_text without the check of len(found) > 1
get_value_from_text_nocheck(field, source_text) ==
    IF source_text.t # "text" THEN Raise("TypeError")
    ELSE CastFound(field, FindKey(field.key, source_text.lines))

\* re.findall raises TypeError when source_text is not a string
get_value_from_text(field, source_text) ==
    IF source_text.t # "text" THEN Raise("TypeError")
    ELSE IF Len(FindKey(field.key, source_text.lines)) > 1 /\ field.type # "ARRAY"
    THEN RaiseKey("ValueError", field.key)
    ELSE CastFound(field, FindKey(field.key, source_text.lines))

-----------------------------------------------------------------------------
(* Section: extract_section_text, from_text *)

SektsiyaDokument == "SektsiyaDokument"

KonetsDokumenta == "KonetsDokumenta"

SektsiyaRaschSchet == "SektsiyaRaschSchet"

KonetsRaschSchet == "KonetsRaschSchet"

KonetsFayla == "KonetsFayla"

\* the keys that hold the word 'Sektsiya'
SektsiyaWords == {SektsiyaDokument, SektsiyaRaschSchet}

\* Meta.regex of a section class; "None" where the class leaves it None
MetaRegex(cls) ==
    CASE cls = "Header" -> "header"
      [] cls = "Balance" -> "balance"
      [] cls = "Document" -> "document"
      [] OTHER -> "None"

\* a match that runs from the first begin marker to the last end marker
FindSpansGreedy(lines, begin, end, keep) ==
    LET B == {i \in 1..Len(lines) : lines[i].key = begin}
        E == {j \in 1..Len(lines) : lines[j].key = end}
    IN  IF B = {} \/ E = {} \/ ~(\E j \in E : j > MinOf(B)) THEN <<>>
        ELSE <<SubSeq(lines, IF keep THEN MinOf(B) ELSE MinOf(B) + 1,
                      (CHOOSE j \in E : \A k \in E : k <= j) - 1)>>

RECURSIVE FindSpans(_, _, _, _)
\* findall of begin(.*?)end with re.S: the spans from a begin marker to the
\* next end marker, left to right, none overlapping; keep: the group holds the
\* begin marker's line
FindSpans(lines, begin, end, keep) ==
    LET B == {i \in 1..Len(lines) : lines[i].key = begin}
    IN  IF B = {} THEN <<>>
        ELSE LET b == MinOf(B)
                 E == {j \in (b + 1)..Len(lines) : lines[j].key = end}
             IN  IF E = {} THEN <<>>
                 ELSE <<SubSeq(lines, IF keep THEN b ELSE b + 1, MinOf(E) - 1)>>
                      \o FindSpans(SubSeq(lines, MinOf(E) + 1, Len(lines)), begin, end, keep)

\* regex.findall(source_text)
FindAll(regex, lines) ==
    CASE regex = "header" ->
            \* ^(.*?)Sektsiya with re.S: the text before the first 'Sektsiya'
            LET S == {i \in 1..Len(lines) : lines[i].key \in SektsiyaWords}
            IN  IF S = {} THEN <<>> ELSE <<SubSeq(lines, 1, MinOf(S) - 1)>>
      [] regex = "balance" ->
            FindSpans(lines, SektsiyaRaschSchet, KonetsRaschSchet, FALSE)
      [] regex = "document" ->
            FindSpans(lines, SektsiyaDokument, KonetsDokumenta, TRUE)

\* returns a text, a list of texts, or (falling off the end) None
extract_section_text(cls, source_text) ==
    IF MetaRegex(cls) = "None" THEN Raise("ValueError")
    ELSE Bind(FindAll(MetaRegex(cls), source_text.lines), LAMBDA result :
            IF result # <<>>
            THEN IF Len(result) = 1 THEN Text(result[1])
                 ELSE PyList([i \in 1..Len(result) |-> Text(result[i])])
            ELSE None)

\* a section object: its class and its attributes
Obj(cls, a) == [t |-> cls, a |-> a]

\* what a loop leaves: the first raise of its turns, or else the value built
FirstRaise(turns, built) ==
    IF \E i \in 1..Len(turns) : IsRaise(turns[i])
    THEN turns[MinOf({i \in 1..Len(turns) : IsRaise(turns[i])})]
    ELSE built

\* the index of attribute x in the dict items
IndexOf(items, x) == CHOOSE i \in 1..Len(items) : items[i].attr = x

\* Section.from_text: the first field (in dict order) that raises ends the loop
Section_from_text(cls, section_text) ==
    Bind(to_dict(cls), LAMBDA items :
    Bind([i \in 1..Len(items) |-> get_value_from_text(items[i], section_text)], LAMBDA vals :
        FirstRaise(vals, Obj(cls, [x \in Attrs(cls) |-> vals[IndexOf(items, x)]]))))

Header_from_text(source_text) ==
    Section_from_text("Header", extract_section_text("Header", source_text))

Balance_from_text(source_text) ==
    Section_from_text("Balance", extract_section_text("Balance", source_text))

\* Document.Subsections, in the order Document.from_text fills them
Subsections == <<"receipt", "payer", "receiver", "payment", "tax", "special">>

SubsectionClass(name) ==
    CASE name = "receipt" -> "Receipt"
      [] name = "payer" -> "Payer"
      [] name = "receiver" -> "Receiver"
      [] name = "payment" -> "Payment"
      [] name = "tax" -> "Tax"
      [] name = "special" -> "Special"

SubsectionNames == {Subsections[i] : i \in 1..Len(Subsections)}

SubsectionIndex(n) == CHOOSE i \in 1..Len(Subsections) : Subsections[i] = n

\* a Document object: its own attributes and its subsections
DocObj(a, sub) == [t |-> "Document", a |-> a, sub |-> sub]

\* one turn of the loop of Document.from_text: the Document fields, then the
\* six subsections, all read from the same section_text
DocumentOf(section_text) ==
    Bind([i \in 1..(1 + Len(Subsections)) |->
            Section_from_text(IF i = 1 THEN "Document" ELSE SubsectionClass(Subsections[i - 1]),
                              section_text)], LAMBDA parts :
        FirstRaise(parts, DocObj(parts[1].a,
                                 [n \in SubsectionNames |-> parts[1 + SubsectionIndex(n)]])))

Document_from_text(source_text) ==
    Bind(extract_section_text("Document", source_text), LAMBDA extracted :
    Bind(IF extracted.t = "list" THEN extracted.v ELSE <<extracted>>, LAMBDA list :
    Bind([i \in 1..Len(list) |-> DocumentOf(list[i])], LAMBDA results :
        FirstRaise(results, PyList(results)))))

StatementObj(header, balance, documents) ==
    [t |-> "Statement", header |-> header, balance |-> balance, documents |-> documents]

Statement_from_text(source_text) ==
    Bind(<<Header_from_text(source_text), Balance_from_text(source_text),
           Document_from_text(source_text)>>, LAMBDA parts :
        FirstRaise(parts, StatementObj(parts[1], parts[2], parts[3])))

-----------------------------------------------------------------------------
(* Section.to_text *)

\* the line get_line formats from the cast value, or what the cast raised
LineOf(field, value) ==
    IF IsRaise(value) THEN value
    ELSE IF ~("TO_BANK" \in field.required) /\ value.v = <<>> THEN Text(<<>>)
    ELSE IF field.type = "FLAG" THEN Text(<<Bare(field.key)>>)
    ELSE Text(<<Kv(field.key, value.v)>>)

\* get_line of get_text: a text of no line or of one line
get_line(field, attr) == LineOf(field, cast_to_text(field.type, attr))

\* for item in attr: the elements of a list or a set, the characters of a string
Iter(attr) ==
    IF attr.t = "str" THEN [i \in 1..Len(attr.v) |-> Str(<<attr.v[i]>>)] ELSE attr.v

\* the lines of the texts, joined by line feeds
JoinTexts(texts) == Text(JoinNL([i \in 1..Len(texts) |-> texts[i].lines]))

get_text(field, attr) ==
    IF Truthy(attr) /\ field.type = "ARRAY"
    THEN Bind([i \in 1..Len(Iter(attr)) |-> get_line(field, Iter(attr)[i])], LAMBDA lines :
            FirstRaise(lines, JoinTexts(lines)))
    ELSE get_line(field, attr)

\* the check validate_attr makes on the cast value
Validated(field, value) ==
    IF IsRaise(value) THEN value
    ELSE IF "TO_BANK" \in field.required /\ field.type # "FLAG" /\ value.v = <<>>
    THEN RaiseKey("ValueError", field.key)
    ELSE None

\* validate_attr: None when it returns, else what it raises
validate_attr(field, attr) == Validated(field, cast_to_text(field.type, attr))

\* getattr(self, key, None)
GetAttr(self, key) == IF key \in DOMAIN self.a THEN self.a[key] ELSE None

\* one turn of the loop of Section.to_text
TurnOf(field, attr, validate) ==
    IF validate /\ IsRaise(validate_attr(field, attr)) THEN validate_attr(field, attr)
    ELSE get_text(field, attr)

\* ifilter: the texts that are not empty
NonEmpty(texts) == SelectSeq(texts, LAMBDA x : x.lines # <<>>)

\* Section.to_text(self, validate): a text, or the first thing the loop raises
Section_to_text(self, validate) ==
    Bind(to_dict(self.t), LAMBDA items :
    Bind([i \in 1..Len(items) |-> TurnOf(items[i], GetAttr(self, items[i].attr), validate)],
         LAMBDA result :
        FirstRaise(result, JoinTexts(NonEmpty(result)))))

Balance_to_text(self, validate) ==
    Bind(Section_to_text(self, validate), LAMBDA content :
        IF IsRaise(content) THEN content
        ELSE Text(JoinNL(<< <<Bare(SektsiyaRaschSchet)>>, content.lines,
                            <<Bare(KonetsRaschSchet)>> >>)))

\* the subsections that are kept, last first
PresentReversed(self) ==
    [i \in 1..Len(SelectSeq(Subsections, LAMBDA n : Truthy(self.sub[n]))) |->
        SelectSeq(Subsections, LAMBDA n : Truthy(self.sub[n]))[
            Len(SelectSeq(Subsections, LAMBDA n : Truthy(self.sub[n]))) + 1 - i]]

\* the subsections ifilter(None, ...) keeps
Present(self) == SelectSeq(Subsections, LAMBDA n : Truthy(self.sub[n]))

\* Document.to_text that hands the flag to the subsections
Document_to_text_validating(self, validate) ==
    Bind([i \in 1..(1 + Len(Present(self))) |->
            Section_to_text(IF i = 1 THEN self ELSE self.sub[Present(self)[i - 1]],
                            validate)], LAMBDA parts :
        FirstRaise(parts, Text(JoinNL([i \in 1..Len(parts) |-> parts[i].lines]
                                      \o << <<Bare(KonetsDokumenta)>> >>))))

\* Document.to_text: unicode(x) of a subsection is x.to_text(validate=False)
Document_to_text(self, validate) ==
    Bind([i \in 1..(1 + Len(Present(self))) |->
            Section_to_text(IF i = 1 THEN self ELSE self.sub[Present(self)[i - 1]],
                            IF i = 1 THEN validate ELSE FALSE)], LAMBDA parts :
        FirstRaise(parts, Text(JoinNL([i \in 1..Len(parts) |-> parts[i].lines]
                                      \o << <<Bare(KonetsDokumenta)>> >>))))

\* the results list of Statement.to_text, without the None of an absent balance
ResultsOf(self, validate) ==
    <<Section_to_text(self.header, validate)>>
    \o (IF Truthy(self.balance) THEN <<Balance_to_text(self.balance, validate)>> ELSE <<>>)
    \o (IF Truthy(self.documents)
        THEN [i \in 1..Len(self.documents.v) |-> Document_to_text(self.documents.v[i], validate)]
        ELSE <<>>)

Statement_to_text(self, validate) ==
    Bind(ResultsOf(self, validate), LAMBDA results :
        FirstRaise(results,
                   Text(JoinBlocks([i \in 1..Len(NonEmpty(results)) + 1 |->
                           IF i <= Len(NonEmpty(results)) THEN NonEmpty(results)[i].lines
                           ELSE <<Bare(KonetsFayla)>>]))))

-----------------------------------------------------------------------------
(* Statement.from_documents *)

DateKey(d) == d.y * 10000 + d.m * 100 + d.d

\* min(dates) / max(dates); ordering a date against None raises TypeError
MinMaxDate(dates, least) ==
    IF \E i, j \in 1..Len(dates) : dates[i].t # dates[j].t THEN Raise("TypeError")
    ELSE IF dates[1].t = "None" THEN None
    ELSE dates[CHOOSE i \in 1..Len(dates) : \A j \in 1..Len(dates) :
                   /\ (least => DateKey(dates[i]) <= DateKey(dates[j]))
                   /\ (~least => DateKey(dates[i]) >= DateKey(dates[j]))
                   /\ (DateKey(dates[i]) = DateKey(dates[j]) => i <= j)]

\* Header(...) with the arguments it is not given left None
HeaderOf(given) ==
    Obj("Header", [x \in Attrs("Header") |-> IF x \in DOMAIN given THEN given[x] ELSE None])

\* the bank identifiers set([d.payer.bank_bic for d in documents])
PayerBics(documents) == {documents[i].sub.payer.a.bank_bic : i \in 1..Len(documents)}

PayerAccounts(documents) ==
    {documents[i].sub.payer.a.account_number : i \in 1..Len(documents)}

\* a check that only asks for some bank identifier
payments_from_the_only_bank_some(documents) ==
    Cardinality(PayerBics(documents)) >= 1

payments_from_the_only_bank(documents) ==
    Cardinality(PayerBics(documents)) = 1

\* Statement.from_documents; today, now: date.today() and datetime.now();
\* accounts: the payers' account numbers in the order the set iterates
Statement_from_documents(sender, documents, today, now, accounts) ==
    IF \E i \in 1..Len(documents) : documents[i].sub.payer.t = "None"
    THEN Raise("AttributeError")
    ELSE IF ~payments_from_the_only_bank(documents)
    THEN Raise("ValueError")
    ELSE LET dates == [i \in 1..Len(documents) |-> documents[i].a.date]
         IN  IF IsRaise(MinMaxDate(dates, TRUE)) THEN MinMaxDate(dates, TRUE)
             ELSE StatementObj(
                    HeaderOf([format_version |-> Str(<<"1", ".", "0", "2">>),
                              encoding |-> Str(<<"W", "i", "n", "d", "o", "w", "s">>),
                              sender |-> sender,
                              creation_date |-> today,
                              creation_time |-> now,
                              filter_date_since |-> MinMaxDate(dates, TRUE),
                              filter_date_till |-> MinMaxDate(dates, FALSE),
                              filter_account_numbers |-> PySet(accounts)]),
                    None,
                    PyList(documents))

-----------------------------------------------------------------------------
(* The inputs of the calls *)

\* the most documents in a text or in a list given to from_documents
MaxDocs == 2

\* the most calls one run makes
MaxCalls == 3

\* the longest amount string drawn letter by letter
MaxAmountLen == 4

SeqsUpTo(S, n) == UNION {[1..k -> S] : k \in 0..n}

Date1 == <<"0", "1", ".", "0", "2", ".", "2", "0", "2", "0">>

Date2 == <<"1", "5", ".", "0", "3", ".", "2", "0", "2", "1">>

Time1 == <<"1", "2", ":", "3", "0", ":", "4", "5">>

Midnight == <<"0", "0", ":", "0", "0", ":", "0", "0">>

Amount1 == <<"1", "0", ".", "5", "0">>

\* headers: full with two accounts; with one account; the bare format line
\* alone; a repeated line; the format line with '=' and a midnight time
HeaderChoices ==
    { << Bare("1CClientBankExchange"), Kv("VersiyaFormata", <<"1", ".", "0", "2">>),
         Kv("Kodirovka", <<"W">>), Kv("Otpravitel", <<"A">>),
         Kv("DataSozdaniya", Date1), Kv("VremyaSozdaniya", Time1),
         Kv("DataNachala", Date1), Kv("DataKontsa", Date2),
         Kv("RaschSchet", <<"4", "0">>), Kv("RaschSchet", <<"4", "1">>) >>,
      << Bare("1CClientBankExchange"), Kv("VersiyaFormata", <<"1", ".", "0", "2">>),
         Kv("Kodirovka", <<"W">>), Kv("Poluchatel", <<" ", "B", " ">>),
         Kv("DataNachala", Date1), Kv("DataKontsa", Date2),
         Kv("RaschSchet", <<"4", "0">>) >>,
      << Bare("1CClientBankExchange") >>,
      << Bare("1CClientBankExchange"), Kv("Kodirovka", <<"W">>), Kv("Kodirovka", <<"D">>) >>,
      << Kv("1CClientBankExchange", <<"1">>), Kv("VersiyaFormata", <<>>),
         Kv("VremyaSozdaniya", Midnight), Kv("RaschSchet", <<"4">>) >> }

\* balance sections: none; full; with the optional amounts left out; with no
\* end marker
BalanceChoices ==
    { <<>>,
      << Bare(SektsiyaRaschSchet), Kv("DataNachala", Date1), Kv("DataKontsa", Date2),
         Kv("RaschSchet", <<"4", "0">>), Kv("NachalnyyOstatok", Amount1),
         Kv("VsegoPostupilo", <<"5">>), Kv("VsegoSpisano", <<"5">>),
         Kv("KonechnyyOstatok", Amount1), Bare(KonetsRaschSchet) >>,
      << Bare(SektsiyaRaschSchet), Kv("DataNachala", Date1),
         Kv("RaschSchet", <<"4", "0">>), Kv("NachalnyyOstatok", <<"7">>),
         Bare(KonetsRaschSchet) >>,
      << Bare(SektsiyaRaschSchet), Kv("RaschSchet", <<"4", "0">>) >> }

\* document blocks: full; with no amount; with a repeated line; with no end
\* marker; with a bare begin marker and no number
DocChoices ==
    { << Kv(SektsiyaDokument, <<"P">>), Kv("Nomer", <<"1">>), Kv("Data", Date1),
         Kv("Summa", Amount1), Kv("Platelshchik", <<"A">>),
         Kv("PlatelshchikBIK", <<"7">>), Kv("PoluchatelSchet", <<"8">>),
         Bare(KonetsDokumenta) >>,
      << Kv(SektsiyaDokument, <<"P">>), Kv("Nomer", <<"2">>), Kv("Data", Date2),
         Kv("KvitantsiyaVremya", Time1), Bare(KonetsDokumenta) >>,
      << Kv(SektsiyaDokument, <<"P">>), Kv("Nomer", <<"3">>), Kv("Nomer", <<"3">>),
         Kv("Data", Date1), Kv("Summa", <<"3">>), Bare(KonetsDokumenta) >>,
      << Kv(SektsiyaDokument, <<"P">>), Kv("Nomer", <<"4">>), Kv("Platelshchik", <<"D">>) >>,
      << Bare(SektsiyaDokument), Kv("Data", Date2), Kv("Summa", <<"5">>),
         Kv("Poluchatel", <<"E">>), Bare(KonetsDokumenta) >> }

\* a text as its parts: header lines, balance lines, document blocks
TextInputs ==
    [hdr : HeaderChoices, bal : BalanceChoices, docs : SeqsUpTo(DocChoices, MaxDocs)]

\* the lines of the text, with the end-of-file line
Flatten(src) == src.hdr \o src.bal \o Concat(src.docs) \o <<Bare(KonetsFayla)>>


\* the record with attribute attr set to val
With(obj, attr, val) == [obj EXCEPT !.a[attr] = val]

\* a section object with the text fields it must have for the bank set to v
FullSection(cls, v) ==
    Obj(cls, [x \in Attrs(cls) |->
                 IF "TO_BANK" \in FieldOf(cls, x).required /\ FieldOf(cls, x).type = "TEXT"
                 THEN v ELSE None])

NoSubsections == [n \in SubsectionNames |-> None]

\* a payment order as an application builds it
BuiltDoc(number, date, amount, payer) ==
    DocObj([document_type |-> Str(<<"P">>), number |-> number, date |-> date,
            amount |-> amount],
           [NoSubsections EXCEPT !.payer = payer,
                                 !.receiver = FullSection("Receiver", Str(<<"R">>)),
                                 !.payment = FullSection("Payment", Str(<<"0", "1">>))])

PayerOf(bic, account) ==
    With(With(FullSection("Payer", Str(<<"A">>)), "bank_bic", bic), "account_number", account)

\* orders of one bank with two accounts, an order of another bank, an order
\* with no bank identifier, an order with no payer, an order with no date
BuiltDocChoices ==
    { BuiltDoc(Str(<<"1">>), PyDate(2020, 2, 1), PyDecimal(FALSE, 1050, 2),
               PayerOf(Str(<<"7">>), Str(<<"4", "0">>))),
      BuiltDoc(Str(<<"2">>), PyDate(2021, 3, 15), PyDecimal(FALSE, 5, 0),
               PayerOf(Str(<<"7">>), Str(<<"4", "1">>))),
      BuiltDoc(Str(<<"3">>), PyDate(2020, 2, 1), PyDecimal(FALSE, 3, 0),
               PayerOf(Str(<<"9">>), Str(<<"4", "0">>))),
      BuiltDoc(Str(<<"4">>), PyDate(2020, 2, 1), PyDecimal(FALSE, 3, 0),
               PayerOf(None, Str(<<"4", "0">>))),
      BuiltDoc(Str(<<"5">>), PyDate(2020, 2, 1), PyDecimal(FALSE, 3, 0), None),
      BuiltDoc(Str(<<"6">>), None, PyDecimal(FALSE, 3, 0),
               PayerOf(Str(<<"7">>), Str(<<"4", "0">>))) }

\* date.today() and datetime.now() of the run
Today == PyDate(2026, 11, 1)

Now == PyDateTime(2026, 11, 1, 12, 30, 45)

DocsInputs == [sender : {Str(<<"A">>)}, docs : SeqsUpTo(BuiltDocChoices, MaxDocs)]

\* the sequences that hold each element of the finite set S once
Perms(S) ==
    {p \in [1..Cardinality(S) -> S] : \A x \in S : \E i \in 1..Cardinality(S) : p[i] = x}

\* section objects with every field set
FullObjects ==
    { FullSection("Payer", Str(<<"A">>)),
      FullSection("Receiver", Str(<<"R">>)),
      FullSection("Payment", Str(<<"0", "1">>)),
      FullSection("Tax", Str(<<"T">>)),
      Obj("Receipt", [date |-> PyDate(2020, 2, 1), time |-> PyTime(12, 30, 45),
                      content |-> Str(<<"C">>)]),
      BuiltDoc(Str(<<"1">>), PyDate(2020, 2, 1), PyDecimal(FALSE, 1050, 2), None),
      HeaderOf([format_name |-> Str(<<"1">>),
                format_version |-> Str(<<"1", ".", "0", "2">>),
                encoding |-> Str(<<"W">>), sender |-> Str(<<"A">>),
                filter_date_since |-> PyDate(2020, 2, 1),
                filter_date_till |-> PyDate(2021, 3, 15),
                filter_account_numbers |-> PyList(<<Str(<<"4", "0">>), Str(<<"4", "1">>)>>)]),
      Obj("Balance", [tag_begin |-> Str(<<"1">>), date_since |-> PyDate(2020, 2, 1),
                      date_till |-> PyDate(2021, 3, 15),
                      account_number |-> Str(<<"4", "0">>),
                      initial_balance |-> PyDecimal(FALSE, 1050, 2),
                      total_income |-> PyDecimal(FALSE, 5, 0),
                      total_expense |-> PyDecimal(FALSE, 5, 0),
                      final_balance |-> PyDecimal(FALSE, 1050, 2),
                      tag_end |-> None]) }

\* what a field that has no value holds
EmptyValues == {None, Str(<<>>), PyList(<<>>)}

IsEmptyValue(v) == v.t = "None" \/ (v.t \in {"str", "list", "set"} /\ v.v = <<>>)

\* the full objects, and each with one field emptied
\* documents with a payer whose name is set or empty, with and without a number
DocumentInputs ==
    {BuiltDoc(number, PyDate(2020, 2, 1), PyDecimal(FALSE, 1050, 2),
              With(FullSection("Payer", Str(<<"A">>)), "name", e)) :
        number \in {Str(<<"1">>), None}, e \in {Str(<<"A">>), Str(<<>>), None}}

SectionInputs ==
    FullObjects \cup DocumentInputs \cup
    UNION {{With(o, x, e) : x \in Attrs(o.t), e \in EmptyValues} : o \in FullObjects}

AmountAlphabet == {"1", "2", ",", ".", " ", "'", "-"}

\* the amounts the format description names
NamedAmounts ==
    { <<"1", " ", "2", "3", "4", ",", "5", "6">>,
      <<"1", "'", "2", "3", "4", ".", "5", "6">>,
      <<"1", "2", "3", "4", ".", "5", "6">>,
      <<"1", ".", "2", "3", "4", ",", "5", "6">> }

AmountInputs == SeqsUpTo(AmountAlphabet, MaxAmountLen) \cup NamedAmounts

-----------------------------------------------------------------------------
(* The calls *)

\* self.to_text(validate), by the class of self
to_text(self, validate) ==
    CASE self.t = "Statement" -> Statement_to_text(self, validate)
      [] self.t = "Balance" -> Balance_to_text(self, validate)
      [] self.t = "Document" -> Document_to_text(self, validate)
      [] OTHER -> Section_to_text(self, validate)

Init ==
    /\ \/ /\ pc = "text"
          /\ dictOrder \in DictOrders
          /\ arg \in TextInputs
          /\ text = Flatten(arg)
       \/ /\ pc = "docs"
          /\ dictOrder \in DictOrders
          /\ arg \in DocsInputs
          /\ text = <<>>
       \/ /\ pc = "section"
          /\ dictOrder \in DictOrders
          /\ arg \in SectionInputs
          /\ text = <<>>
       \/ /\ pc = "amount"
          /\ dictOrder = "declared"
          /\ arg \in AmountInputs
          /\ text = <<>>
    /\ stmt = None
    /\ first = None
    /\ ret = None
    /\ hist = <<>>

\* Statement.from_text(text)
FromText ==
    /\ pc \in {"text", "encoded"}
    /\ Len(hist) < MaxCalls
    /\ ret' = Statement_from_text(Text(text))
    /\ stmt' = IF IsRaise(ret') THEN None ELSE ret'
    /\ pc' = IF IsRaise(ret') THEN "failed" ELSE "decoded"
    /\ hist' = Append(hist, "from_text")
    /\ UNCHANGED <<dictOrder, arg, text, first>>

\* stmt.to_text(validate)
ToText(validate) ==
    /\ pc \in {"decoded", "built"}
    /\ Len(hist) < MaxCalls
    /\ ret' = Statement_to_text(stmt, validate)
    /\ text' = IF IsRaise(ret') THEN <<>> ELSE ret'.lines
    /\ first' = stmt
    /\ stmt' = None
    /\ pc' = IF IsRaise(ret') THEN "failed" ELSE "encoded"
    /\ hist' = Append(hist, IF validate THEN "to_text" ELSE "to_text_novalidate")
    /\ UNCHANGED <<dictOrder, arg>>

\* Statement.from_documents(sender, documents)
FromDocuments ==
    /\ pc = "docs"
    /\ \E accounts \in (IF \E i \in 1..Len(arg.docs) : arg.docs[i].sub.payer.t = "None"
                        THEN {<<>>} ELSE Perms(PayerAccounts(arg.docs))) :
          ret' = Statement_from_documents(arg.sender, arg.docs, Today, Now, accounts)
    /\ stmt' = IF IsRaise(ret') THEN None ELSE ret'
    /\ pc' = IF IsRaise(ret') THEN "failed" ELSE "built"
    /\ hist' = Append(hist, "from_documents")
    /\ UNCHANGED <<dictOrder, arg, text, first>>

\* section.to_text(validate) of one section object
SectionToText(validate) ==
    /\ pc = "section"
    /\ ret' = to_text(arg, validate)
    /\ pc' = "done"
    /\ hist' = Append(hist, IF validate THEN "to_text" ELSE "to_text_novalidate")
    /\ UNCHANGED <<dictOrder, arg, text, stmt, first>>

\* Cast.str_to_amount(arg)
StrToAmount ==
    /\ pc = "amount"
    /\ ret' = str_to_amount(arg)
    /\ pc' = IF IsRaise(ret') THEN "failed" ELSE "cast"
    /\ hist' = Append(hist, "str_to_amount")
    /\ UNCHANGED <<dictOrder, arg, text, stmt, first>>

\* Cast.amount_to_str of the amount just decoded
AmountToStr ==
    /\ pc = "cast"
    /\ first' = ret
    /\ ret' = amount_to_str(ret)
    /\ pc' = "done"
    /\ hist' = Append(hist, "amount_to_str")
    /\ UNCHANGED <<dictOrder, arg, text, stmt>>

Next ==
    \/ FromText
    \/ \E validate \in BOOLEAN : ToText(validate)
    \/ FromDocuments
    \/ \E validate \in BOOLEAN : SectionToText(validate)
    \/ StrToAmount
    \/ AmountToStr

Spec == Init /\ [][Next]_vars

-----------------------------------------------------------------------------
(* The runs and the parts of their inputs *)

\* the run decodes a text that was read from a file
TextRun == pc = "text" \/ (hist # <<>> /\ hist[1] = "from_text")

\* the only call so far is the decoding of the text read from the file
Decoded1 == hist = <<"from_text">>

\* the number of lines 'key=...' among the lines
Occurrences(key, lines) == Cardinality({i \in 1..Len(lines) : lines[i].key = key /\ lines[i].eq})

\* the classes whose schemas Document.from_text reads from a document block
DocumentClasses == {"Document"} \cup {SubsectionClass(n) : n \in SubsectionNames}

Range(seq) == {seq[i] : i \in 1..Len(seq)}

\* the regions the decoders cut from a text, each with the classes read from it
Regions(lines) ==
    {[classes |-> {"Header"}, lines |-> r] : r \in Range(FindAll("header", lines))}
    \cup {[classes |-> {"Balance"}, lines |-> r] : r \in Range(FindAll("balance", lines))}
    \cup {[classes |-> DocumentClasses, lines |-> r] : r \in Range(FindAll("document", lines))}

\* the fields of the schemas of the classes
FieldsOf(classes) == UNION {Range(SchemaOf(cls)) : cls \in classes}

\* no field that is not an array occurs twice among the lines
NoDuplicate(classes, lines) ==
    \A f \in FieldsOf(classes) : f.type # "ARRAY" => Occurrences(f.key, lines) <= 1

\* a document block from its begin marker to its own end marker
WellFormedBlock(b) ==
    /\ Len(b) >= 2
    /\ b[1].key = SektsiyaDokument
    /\ b[Len(b)].key = KonetsDokumenta
    /\ \A i \in 2..(Len(b) - 1) : b[i].key \notin {SektsiyaDokument, KonetsDokumenta}

\* a document block with a begin marker and no end marker
Unterminated(b) ==
    /\ b # <<>>
    /\ b[1].key = SektsiyaDokument
    /\ \A i \in 1..Len(b) : b[i].key # KonetsDokumenta

\* a balance part that is absent, or runs from its begin to its end marker
WellFormedBalance(b) ==
    \/ b = <<>>
    \/ /\ b[1].key = SektsiyaRaschSchet
       /\ b[Len(b)].key = KonetsRaschSchet

\* the documents that decoding each block on its own gives
BlockwiseDocuments(blocks) ==
    [i \in 1..Len(blocks) |-> DocumentOf(Text(SubSeq(blocks[i], 1, Len(blocks[i]) - 1)))]

\* == of two field values: Decimals compare by number
PyEq(a, b) == a.t = b.t /\ (IF a.t = "Decimal" THEN DecimalEq(a, b) ELSE a = b)

\* two sections (or None) hold equal values field for field
SameFields(x, y) ==
    /\ x.t = y.t
    /\ x.t # "None" =>
          /\ DOMAIN x.a = DOMAIN y.a
          /\ \A k \in DOMAIN x.a : PyEq(x.a[k], y.a[k])

SameDocument(x, y) ==
    /\ SameFields(Obj("Document", x.a), Obj("Document", y.a))
    /\ \A n \in SubsectionNames : SameFields(x.sub[n], y.sub[n])

SameDocuments(xs, ys) ==
    /\ xs.t = "list" /\ ys.t = "list"
    /\ Len(xs.v) = Len(ys.v)
    /\ \A i \in 1..Len(xs.v) : SameDocument(xs.v[i], ys.v[i])

\* the header and document fields of the two statements are equal; a subsection
\* that x does not hold is not compared
SameOutbound(x, y) ==
    /\ SameFields(x.header, y.header)
    /\ Len(x.documents.v) = Len(y.documents.v)
    /\ \A i \in 1..Len(x.documents.v) :
          /\ SameFields(Obj("Document", x.documents.v[i].a), Obj("Document", y.documents.v[i].a))
          /\ \A n \in SubsectionNames :
                x.documents.v[i].sub[n].t # "None" =>
                    SameFields(x.documents.v[i].sub[n], y.documents.v[i].sub[n])

\* an outbound document with its number, date, amount and payer bank filled in
Populated(doc) ==
    /\ \A x \in {"number", "date", "amount"} : doc.a[x].t # "None"
    /\ doc.sub.payer.t # "None"
    /\ doc.sub.payer.a.bank_bic.t # "None"
    /\ doc.sub.payer.a.account_number.t # "None"

\* the fields of the section that to_text(validate=True) must find filled:
\* required for the bank, not a flag, and empty
EmptyRequired(section) ==
    {x \in Attrs(section.t) :
        /\ "TO_BANK" \in FieldOf(section.t, x).required
        /\ FieldOf(section.t, x).type # "FLAG"
        /\ IsEmptyValue(section.a[x])}

-----------------------------------------------------------------------------
(* The properties *)

\* C1: a statement built by from_documents from a non-empty list of populated
\* documents of one bank, encoded with validate=False and decoded again, decodes
\* without an error to the same header and document field values.
C1_OutboundRoundTrip ==
    (/\ hist = <<"from_documents", "to_text_novalidate", "from_text">>
     /\ arg.docs # <<>>
     /\ \A i \in 1..Len(arg.docs) : Populated(arg.docs[i]))
    => (~IsRaise(ret) /\ SameOutbound(first, ret))

\* C2: a text that decodes, encoded with validate=False and decoded again,
\* decodes without an error to records equal field for field to the first decode.
C2_DecodeEncodeDecode ==
    hist = <<"from_text", "to_text_novalidate", "from_text">>
    => /\ ~IsRaise(ret)
       /\ SameFields(first.header, ret.header)
       /\ SameFields(first.balance, ret.balance)
       /\ SameDocuments(first.documents, ret.documents)

\* C3: to_text(validate=True) of a section that holds an empty value in a field
\* required for the bank (and not a flag) raises an error that names the key of
\* that field.
C3_RequiredFieldRaises ==
    hist = <<"to_text">>
    => \A x \in EmptyRequired(arg) :
          IsRaise(ret) /\ ret.key = FieldOf(arg.t, x).key

\* C4: str_to_amount gives the decimal 1234.56 for each of '1 234,56',
\* "1'234.56", '1234.56' and '1.234,56'.
C4_NamedAmounts ==
    (hist = <<"str_to_amount">> /\ arg \in NamedAmounts)
    => DecimalEq(ret, PyDecimal(FALSE, 123456, 2))

\* C5: in every region of the text, a field that is not an array and has two or
\* more lines makes get_value_from_text raise the error naming its key, and
\* Statement.from_text of that text raises and leaves no statement; an array
\* field raises for no number of lines.
C5_DuplicateFieldRaises ==
    \A r \in Regions(text) : \A f \in FieldsOf(r.classes) :
        /\ (f.type # "ARRAY" /\ Occurrences(f.key, r.lines) >= 2)
           => /\ get_value_from_text(f, Text(r.lines)) = RaiseKey("ValueError", f.key)
              /\ (hist # <<>> /\ hist[Len(hist)] = "from_text")
                 => (IsRaise(ret) /\ stmt = None /\ pc = "failed")
        /\ f.type = "ARRAY" => ~IsRaise(get_value_from_text(f, Text(r.lines)))

\* C5: decoding stopped at the second line of the document number
C5_Witness ==
    /\ Decoded1
    /\ \E r \in Regions(text) : Occurrences("Nomer", r.lines) = 2
    /\ ret = RaiseKey("ValueError", "Nomer")
    /\ stmt = None

\* C6: from_documents raises and leaves no statement when two documents name
\* different payer banks, and returns a statement only for a list that names
\* exactly one.
C6_MultiBankRejected ==
    (hist = <<"from_documents">> /\ \A i \in 1..Len(arg.docs) : arg.docs[i].sub.payer.t # "None")
    => /\ (\E i, j \in 1..Len(arg.docs) :
              arg.docs[i].sub.payer.a.bank_bic # arg.docs[j].sub.payer.a.bank_bic)
          => (IsRaise(ret) /\ stmt = None /\ pc = "failed")
       /\ ~IsRaise(ret)
          => /\ ret.t = "Statement"
             /\ \E b \in PayerBics(arg.docs) : PayerBics(arg.docs) = {b}

\* C6: two documents of two banks were refused
C6_Witness ==
    /\ hist = <<"from_documents">>
    /\ Len(arg.docs) = 2
    /\ arg.docs[1].sub.payer.t # "None" /\ arg.docs[2].sub.payer.t # "None"
    /\ arg.docs[1].sub.payer.a.bank_bic # arg.docs[2].sub.payer.a.bank_bic
    /\ ret = Raise("ValueError")
    /\ stmt = None

\* C7: for a text of n >= 1 well-formed document blocks, Document.from_text
\* gives (unless a block raises) the n documents in the order of the blocks,
\* each equal to what its block alone decodes to, and these are the documents
\* of the statement Statement.from_text returns.
C7_DocumentsInOrder ==
    (/\ TextRun /\ Len(hist) <= 1
     /\ arg.docs # <<>>
     /\ \A i \in 1..Len(arg.docs) : WellFormedBlock(arg.docs[i]))
    => /\ Document_from_text(Text(text)) =
              FirstRaise(BlockwiseDocuments(arg.docs), PyList(BlockwiseDocuments(arg.docs)))
       /\ (Decoded1 /\ ~IsRaise(ret))
          => /\ Len(ret.documents.v) = Len(arg.docs)
             /\ ret.documents = PyList(BlockwiseDocuments(arg.docs))

\* C7: two blocks decoded to two documents, each with the number of its block
C7_Witness ==
    /\ Decoded1
    /\ pc = "decoded"
    /\ Len(arg.docs) = 2
    /\ WellFormedBlock(arg.docs[1]) /\ WellFormedBlock(arg.docs[2])
    /\ Len(ret.documents.v) = 2
    /\ ret.documents.v[1].a.number = Str(<<"1">>)
    /\ ret.documents.v[2].a.number = Str(<<"2">>)
    /\ ret.documents.v[1].sub.payer.a.name = Str(<<"A">>)
    /\ ret.documents.v[2].sub.payer.a.name = None

\* C8: the format flag of the header decodes to a value that is not None
\* exactly when the header holds a line of its key, with or without '='.
C8_FlagFromPresence ==
    (Decoded1 /\ pc = "decoded")
    => (ret.header.a.format_name.t # "None"
        <=> \E i \in 1..Len(arg.hdr) : arg.hdr[i].key = "1CClientBankExchange")

\* C9: a text whose header the decoder finds, and whose parts are otherwise
\* well formed, decodes without an error when it has no balance section
\* (balance None) and when it has no document block (an empty documents list).
C9_AbsentSectionsDecode ==
    (/\ Decoded1
     /\ FindAll("header", text) # <<>>
     /\ NoDuplicate({"Header"}, arg.hdr)
     /\ WellFormedBalance(arg.bal) /\ NoDuplicate({"Balance"}, arg.bal)
     /\ \A i \in 1..Len(arg.docs) :
           WellFormedBlock(arg.docs[i]) /\ NoDuplicate(DocumentClasses, arg.docs[i])
     /\ (arg.bal = <<>> \/ arg.docs = <<>>))
    => /\ ~IsRaise(ret)
       /\ arg.bal = <<>> => ret.balance = None
       /\ arg.docs = <<>> => ret.documents = PyList(<<>>)

\* C10: decoding a text that holds a document begin marker with no end marker
\* of its own raises an error and leaves no statement.
C10_UnterminatedRaises ==
    (Decoded1 /\ \E i \in 1..Len(arg.docs) : Unterminated(arg.docs[i]))
    => (IsRaise(ret) /\ stmt = None)

\* the fields of the region that have one line, 'key=' with an empty payload
EmptyPayloads(r) ==
    {f \in FieldsOf(r.classes) : FindKey(f.key, r.lines) = << <<>> >>}

\* C11: a line 'key=' with an empty payload decodes to None for a field of any
\* type and never raises; str_to_amount of the empty string returns None.
C11_EmptyPayloadIsNone ==
    /\ \A r \in Regions(text) : \A f \in EmptyPayloads(r) :
          get_value_from_text(f, Text(r.lines)).t = "None"
    /\ (hist = <<"str_to_amount">> /\ arg = <<>>) => ret.t = "None"

\* the array field of the header, and its lines in a header text
Accounts == FieldOf("Header", "filter_account_numbers")

\* C12: an ARRAY field with k >= 1 lines in the header (k = 1 too) decodes to a
\* list of exactly k elements, and encoding the decoded header writes exactly
\* k lines of that key.
C12_ArrayOfAnyLength ==
    /\ (Decoded1 /\ pc = "decoded" /\ Occurrences(Accounts.key, arg.hdr) >= 1)
       => /\ ret.header.a.filter_account_numbers.t = "list"
          /\ Len(ret.header.a.filter_account_numbers.v) = Occurrences(Accounts.key, arg.hdr)
    /\ (hist = <<"from_text", "to_text_novalidate">> /\ pc = "encoded"
        /\ Occurrences(Accounts.key, arg.hdr) >= 1)
       => Occurrences(Accounts.key, FindAll("header", text)[1])
             = Occurrences(Accounts.key, arg.hdr)

\* the lines come in the order in which the schema of the class declares
\* their keys
InSchemaOrder(cls, lines) ==
    LET place(key) == CHOOSE i \in 1..Len(SchemaOf(cls)) : SchemaOf(cls)[i].key = key
    IN  \A i, j \in 1..Len(lines) :
            (i < j /\ lines[i].key # "" /\ lines[j].key # "")
            => place(lines[i].key) <= place(lines[j].key)

\* C13: Section.to_text writes the lines of a record in the order its Schema
\* declares the fields; the text of a Document that has a type begins with its
\* SektsiyaDokument line.
C13_DeclaredOrder ==
    (hist \in {<<"to_text">>, <<"to_text_novalidate">>} /\ ~IsRaise(ret))
    => /\ arg.t \notin {"Document", "Balance"} => InSchemaOrder(arg.t, ret.lines)
       /\ (arg.t = "Document" /\ ~IsEmptyValue(arg.a.document_type))
          => ret.lines[1].key = SektsiyaDokument

\* the part of a document's text a key belongs to: 0 for the Document schema,
\* i for the schema of the i-th subsection, 7 for the end marker
PartOf(key) ==
    IF key = KonetsDokumenta THEN 1 + Len(Subsections)
    ELSE IF \E f \in FieldsOf({"Document"}) : f.key = key THEN 0
    ELSE CHOOSE i \in 1..Len(Subsections) :
            \E f \in FieldsOf({SubsectionClass(Subsections[i])}) : f.key = key

\* the lines of part p, the empty lines left out
LinesOfPart(lines, p) == SelectSeq(lines, LAMBDA l : l.key # "" /\ PartOf(l.key) = p)

\* C14: the text Document.to_text returns holds the lines of the Document's own
\* fields first, then the text of each subsection that is present, in the order
\* receipt, payer, receiver, payment, tax, special, and the end marker as its
\* last line; a subsection that is None leaves no line.
C14_DocumentLayout ==
    (hist \in {<<"to_text">>, <<"to_text_novalidate">>} /\ arg.t = "Document" /\ ~IsRaise(ret))
    => /\ \A i \in 1..Len(ret.lines) :
             ret.lines[i].key = KonetsDokumenta <=> i = Len(ret.lines)
       /\ \A i, j \in 1..Len(ret.lines) :
             (i < j /\ ret.lines[i].key # "" /\ ret.lines[j].key # "")
             => PartOf(ret.lines[i].key) <= PartOf(ret.lines[j].key)
       /\ LinesOfPart(ret.lines, 0) = Section_to_text(arg, hist = <<"to_text">>).lines
       /\ \A n \in 1..Len(Subsections) :
             LinesOfPart(ret.lines, n) =
                IF arg.sub[Subsections[n]].t = "None" THEN <<>>
                ELSE Section_to_text(arg.sub[Subsections[n]], FALSE).lines

\* C14: a document with a receiver, a payment and no payer was encoded: the
\* receiver's lines stand before the payment's, no payer line is there
C14_Witness ==
    /\ hist = <<"to_text_novalidate">>
    /\ arg.t = "Document" /\ ~IsRaise(ret)
    /\ arg.sub.payer.t = "None"
    /\ LinesOfPart(ret.lines, 0) # <<>>
    /\ LinesOfPart(ret.lines, 2) = <<>>
    /\ LinesOfPart(ret.lines, 3) # <<>>
    /\ LinesOfPart(ret.lines, 4) # <<>>
    /\ ret.lines[Len(ret.lines)] = Bare(KonetsDokumenta)

\* the lines 'key=' of the fields of the document's subsections that are
\* required for the bank and empty
EmptyLines(doc) ==
    UNION {{Kv(FieldOf(doc.sub[n].t, x).key, <<>>) : x \in EmptyRequired(doc.sub[n])} :
              n \in {m \in SubsectionNames : doc.sub[m].t # "None"}}

\* C15: Document.to_text(validate=True) raises exactly when a field of the
\* Document schema itself fails validation, and with that field's error; when
\* it returns, every subsection field that is required for the bank and empty
\* is in the text as 'key=' with an empty value.  Statement.to_text(validate=True)
\* likewise never raises for a key of a subsection and renders those fields.
C15_SubsectionsNotValidated ==
    /\ (hist = <<"to_text">> /\ arg.t = "Document")
       => /\ IsRaise(ret) <=> IsRaise(Section_to_text(arg, TRUE))
          /\ IsRaise(ret) => ret = Section_to_text(arg, TRUE)
          /\ ~IsRaise(ret) => EmptyLines(arg) \subseteq Range(ret.lines)
    /\ hist = <<"from_documents", "to_text">>
       => /\ IsRaise(ret) => \E f \in FieldsOf({"Header", "Document"}) : f.key = ret.key
          /\ ~IsRaise(ret)
             => \A i \in 1..Len(first.documents.v) :
                   EmptyLines(first.documents.v[i]) \subseteq Range(ret.lines)

\* C15: a document with every own field set and a payer without a name was
\* encoded with validate=True: no error, and the line 'Platelshchik=' is there
C15_Witness ==
    /\ hist = <<"to_text">>
    /\ arg.t = "Document" /\ arg.sub.payer.t # "None"
    /\ IsEmptyValue(arg.sub.payer.a.name)
    /\ ~IsRaise(ret)
    /\ Kv("Platelshchik", <<>>) \in Range(ret.lines)

====
